---- MODULE Spec2Model ----
(***************************************************************************)
(* Vector GraphQL MCP server (src/vector_server.py).                       *)
(*                                                                         *)
(* Four tool handlers, each an async function: an optional info            *)
(* notification on the injected context, a fixed variables object with one *)
(* caller-supplied slot, one POST through an httpx.AsyncClient opened by   *)
(* "async with", and either the response text or a formatted error string. *)
(*                                                                         *)
(* A call of a handler is a task of the event loop.  It runs from the      *)
(* host's invocation until it suspends at "await client.post(...)", the    *)
(* network round trip, and from the completion of the POST to its return   *)
(* or raise, the "async with" block closing the client on the way out.     *)
(* Several calls may be suspended at their POSTs at once.                  *)
(***************************************************************************)
EXTENDS Naturals, Sequences, FiniteSets, TLC

(* Number of tool invocations the host makes in one behaviour. *)
MaxCalls == 2

Calls == 1 .. MaxCalls

VARIABLES
    call,       \* per call: position and the handler's locals
    clients,    \* every AsyncClient constructed so far
    wire,       \* per call: the POSTs it issued
    trace       \* per call: what it did, in order

vars == <<call, clients, wire, trace>>

(***************************************************************************)
(* Module-level constants of the server.                                   *)
(***************************************************************************)
API_URL == "https://mainnet-api.vector.fun/graphql"

HEADERS ==
    ( "Host" :> "mainnet-api.vector.fun"
   @@ "content-type" :> "application/json"
   @@ "X-App-Version" :> "1.11.0"
   @@ "X-App-Build-Number" :> "331"
   @@ "accept" :> "*/*"
   @@ "x-app-name" :> "Vector"
   @@ "Accept-Language" :> "en-US;q=1"
   @@ "user-agent" :> "Vector/331 CFNetwork/1568.200.51 Darwin/24.1.0"
   @@ "pragma" :> "no-cache"
   @@ "cache-control" :> "no-cache" )

(* The four GraphQL documents, each named by its operation header. *)
LEADERBOARD_QUERY == "query leaderboardScreenQuery"

PROFILE_QUERY == "query UsernameProfileQuery"

TOKENS_LIST_QUERY == "query TokensListRefetchQuery"

TOKEN_BROADCASTS_QUERY == "query TokenBroadcastsQuery"

(* Python's None, as a JSON null in a body and as the absent context. *)
None == "None"

(* The host left the argument out of the call. *)
Omitted == "<omitted>"

Tools ==
    {"fetch_leaderboard", "fetch_profile", "fetch_token_data", "fetch_token_broadcasts"}

(* The values the host passes for the one argument a tool exposes. *)
Args(tool) ==
    CASE tool = "fetch_leaderboard" -> {Omitted, "TRADE_VOLUME"}
      [] tool = "fetch_profile" -> {"trader1"}
      [] tool = "fetch_token_data" -> {Omitted}
      [] tool = "fetch_token_broadcasts" -> {"abc123"}

(* The context the host injects: none, or an observer object. *)
Contexts == {None, "ctx"}

(* Parameter binding of the handler's signature: the declared default   *)
(* stands in for an argument the host left out.                          *)
Param(tool, given) ==
    IF tool = "fetch_leaderboard" /\ given = Omitted THEN "PNL_WIN" ELSE given

(* Variant: the guard on the context is dropped. *)
CtxAlways(ctx) == TRUE

(* "if ctx:" -- None is falsy, the observer object is truthy. *)
CtxPresent(ctx) == ctx # None

(***************************************************************************)
(* Request construction.                                                   *)
(***************************************************************************)
(* Variant: the leaderboard type is hardcoded like the other variables. *)
leaderboard_variables_fixed(leaderboard_type) ==
    [after |-> None, first |-> 100, groupId |-> None,
     leaderboardType |-> "PNL_WIN", periodsAgo |-> None]

leaderboard_variables(leaderboard_type) ==
    [after |-> None, first |-> 100, groupId |-> None,
     leaderboardType |-> leaderboard_type, periodsAgo |-> None]

(* Variant: the cursor is kept from one call to the next. *)
profile_variables_paged(username) ==
    [username |-> username,
     cursor |-> IF clients = << >> THEN None ELSE "next-page", count |-> 10]

profile_variables(username) ==
    [username |-> username, cursor |-> None, count |-> 10]

token_data_variables ==
    [count |-> 50, cursor |-> None,
     filterBy |-> "(broadcastCount5minV2:>0) && (chain:SOLANA)",
     query |-> None, sortBy |-> "trendingScore5min:desc"]

token_broadcasts_variables(token_id) ==
    [id |-> token_id, after |-> None, first |-> 100,
     sortBy |-> "Time", sortDirection |-> "Desc"]

variables(tool, p) ==
    CASE tool = "fetch_leaderboard" -> leaderboard_variables(p)
      [] tool = "fetch_profile" -> profile_variables(p)
      [] tool = "fetch_token_data" -> token_data_variables
      [] tool = "fetch_token_broadcasts" -> token_broadcasts_variables(p)

QueryOf(tool) ==
    CASE tool = "fetch_leaderboard" -> LEADERBOARD_QUERY
      [] tool = "fetch_profile" -> PROFILE_QUERY
      [] tool = "fetch_token_data" -> TOKENS_LIST_QUERY
      [] tool = "fetch_token_broadcasts" -> TOKEN_BROADCASTS_QUERY

payload(tool, p) == [query |-> QueryOf(tool), variables |-> variables(tool, p)]

(* The text of the info notification. *)
info_text(tool, p) ==
    CASE tool = "fetch_leaderboard" -> "Fetching " \o p \o " leaderboard data..."
      [] tool = "fetch_profile" -> "Fetching profile data for " \o p \o "..."
      [] tool = "fetch_token_data" -> "Fetching trending Solana tokens..."
      [] tool = "fetch_token_broadcasts" -> "Fetching broadcasts for token " \o p \o "..."

(* Variant: every handler keeps the first handler's wording. *)
error_message_copied(tool, e) == "Error fetching leaderboard data: " \o e

(* f"Error fetching ...: {str(e)}" -- e is given by its message. *)
error_message(tool, e) ==
    CASE tool = "fetch_leaderboard" -> "Error fetching leaderboard data: " \o e
      [] tool = "fetch_profile" -> "Error fetching profile data: " \o e
      [] tool = "fetch_token_data" -> "Error fetching token data: " \o e
      [] tool = "fetch_token_broadcasts" -> "Error fetching token broadcasts: " \o e

(***************************************************************************)
(* The transport and the observer, as the handlers see them.               *)
(***************************************************************************)
(* Messages of the exceptions client.post raises. *)
ConnectError == "All connection attempts failed"

TransportErrors == {ConnectError}

(* Raised by send() on a client whose state is CLOSED. *)
ClosedError == "Cannot send a request, as the client has been closed."

(* Raised when the client cannot be constructed or entered. *)
OpenError == "Using SOCKS proxy, but the 'socksio' package is not installed."

(* Raised by a notification the observer cannot deliver. *)
NotifyError == "observer failed"

(* Attribute access on None. *)
AttributeError == "'NoneType' object has no attribute"

(* Bodies the server answers with. *)
EmptyEdges == "{\"data\":{\"tokenBroadcasts\":{\"edges\":[]}}}"

GraphQLErrors == "{\"errors\":[{\"message\":\"bad\"}],\"data\":null}"

Bodies(tool) == {EmptyEdges, GraphQLErrors, error_message(tool, ConnectError)}

Responses(tool) ==
    [status_code : {200}, text : Bodies(tool)] \cup [status_code : {500}, text : {""}]

(* response.raise_for_status(): the message of the HTTPStatusError, or None *)
(* when the status is a success.                                            *)
raise_for_status(response) ==
    IF response.status_code >= 200 /\ response.status_code <= 299
    THEN None
    ELSE "Server error '500 Internal Server Error' for url '" \o API_URL \o "'"

(* Variant: a body with GraphQL errors is turned into an error text. *)
ReturnValueParsed(response) ==
    IF response.text = GraphQLErrors THEN "Error: GraphQL errors" ELSE response.text

(* "return response.text" *)
ReturnValue(response) == response.text

(* Variant: one module-level client serves every call. *)
SharedClient(cs) == 1

(* AsyncClient(verify=False): every evaluation constructs a new client. *)
NewClient(cs) == Len(cs) + 1

(* Variant: the client is closed on the normal path only. *)
AExitOnReturn(cs, id, raising) ==
    IF raising THEN cs ELSE [cs EXCEPT ![id].state = "closed"]

(* __aexit__ of the client: aclose(), whatever leaves the block. *)
AExit(cs, id, raising) == [cs EXCEPT ![id].state = "closed"]

(* Variant: a failed POST is tried once more. *)
RetriesOnce(posted) == posted < 2

(* The except clause ends in "return error_message": it never loops back *)
(* to the POST.  posted: the POSTs the call has issued.                   *)
Retries(posted) == FALSE

Event(ev, text) == [ev |-> ev, text |-> text, code |-> 0]

(* The response the POST completed with. *)
Received(response) ==
    [ev |-> "response", text |-> response.text, code |-> response.status_code]

NoPending == [channel |-> "none", text |-> ""]

Return(text) == [channel |-> "return", text |-> text]

Raise(text) == [channel |-> "raise", text |-> text]

Init ==
    /\ call = [c \in Calls |->
                 [pc |-> "idle", tool |-> "none", given |-> Omitted, ctx |-> None,
                  payload |-> None, client |-> 0, pending |-> NoPending]]
    /\ clients = << >>
    /\ wire = [c \in Calls |-> << >>]
    /\ trace = [c \in Calls |-> << >>]

(***************************************************************************)
(* A notification on the context: ctx.info(text) / ctx.error(text).        *)
(* NotifyEvents: what the observer is told.  NotifyRaises: the message of  *)
(* the exception the statement raises, None when it completes; fails: the  *)
(* observer raises.                                                        *)
(***************************************************************************)
(* Variant: only info notifications reach the observer. *)
NotifyInfoOnly(ctx, level, text) ==
    IF CtxPresent(ctx) /\ ctx # None /\ level = "info"
    THEN << [ev |-> level, text |-> text, code |-> 0] >> ELSE << >>

NotifyEvents(ctx, level, text) ==
    IF CtxPresent(ctx) /\ ctx # None THEN << Event(level, text) >> ELSE << >>

NotifyRaises(ctx, fails) ==
    IF ~CtxPresent(ctx) THEN None
    ELSE IF ctx = None THEN AttributeError
    ELSE IF fails THEN NotifyError
    ELSE None

(* Whether a notification on ctx may raise: only an observer can fail. *)
Fails(ctx) == IF ctx = None THEN {FALSE} ELSE BOOLEAN

(* send() accepts the client: it is new, or it has not been closed. *)
Usable(cs, id) == id \notin DOMAIN cs \/ cs[id].state = "open"

(* Variant: the except clause notifies and re-raises. *)
ExceptReraise(tool, ctx, e, fails) ==
    [events |-> << [ev |-> "failed", text |-> e, code |-> 0] >>
                    \o NotifyEvents(ctx, "error", error_message(tool, e)),
     pending |-> [channel |-> "raise", text |-> e]]

(***************************************************************************)
(* "except Exception as e": format, notify, return.  e is the message of   *)
(* the exception raised inside the try.                                    *)
(***************************************************************************)
Except(tool, ctx, e, fails) ==
    LET msg == error_message(tool, e)
        raised == NotifyRaises(ctx, fails)
    IN  [events |-> << Event("failed", e) >> \o NotifyEvents(ctx, "error", msg),
         pending |-> IF raised = None THEN Return(msg) ELSE Raise(raised)]

(* The request client.post(API_URL, json=payload, headers=HEADERS) sends. *)
Request(id, body) ==
    [client |-> id, url |-> API_URL, headers |-> HEADERS, json |-> body]

(* The state of call c once the handler has left with `pending`. *)
Done(c, tool, given, ctx, body, id, pending) ==
    [pc |-> IF pending.channel = "return" THEN "returned" ELSE "raised",
     tool |-> tool, given |-> given, ctx |-> ctx, payload |-> body,
     client |-> id, pending |-> pending]

(* Leaving the "async with" block: the client is closed, then the value or *)
(* the exception reaches the host.                                         *)
Leave(pending) == << Event("close", ""), Event(pending.channel, pending.text) >>

(***************************************************************************)
(* The host invokes a tool.  The handler notifies, builds variables and    *)
(* payload, opens its client and issues the POST, where it suspends.       *)
(* It is over at once when the info notification or the opening of the     *)
(* client raises (both are outside the try), or when send() refuses a      *)
(* closed client (inside the try).                                         *)
(***************************************************************************)
Invoke(c) ==
    /\ call[c].pc = "idle"
    /\ \A d \in Calls : d < c => call[d].pc # "idle"
    /\ \E tool \in Tools, ctx \in Contexts, opens \in BOOLEAN :
         \E given \in Args(tool), infoFails \in Fails(ctx),
            errorFails \in (IF Usable(clients, NewClient(clients))
                            THEN {FALSE} ELSE Fails(ctx)) :
           LET p == Param(tool, given)
               told == NotifyEvents(ctx, "info", info_text(tool, p))
               raised == NotifyRaises(ctx, infoFails)
               body == payload(tool, p)
               id == NewClient(clients)
               opened == IF id \in DOMAIN clients THEN clients
                         ELSE Append(clients, [owner |-> c, state |-> "open",
                                               verify |-> FALSE])
               h == Except(tool, ctx, ClosedError, errorFails)
           IN  IF raised # None
               THEN /\ call' = [call EXCEPT ![c] =
                                  Done(c, tool, given, ctx, None, 0, Raise(raised))]
                    /\ trace' = [trace EXCEPT ![c] = told \o << Event("raise", raised) >>]
                    /\ UNCHANGED <<clients, wire>>
               ELSE IF ~opens
               THEN /\ call' = [call EXCEPT ![c] =
                                  Done(c, tool, given, ctx, body, 0, Raise(OpenError))]
                    /\ trace' = [trace EXCEPT ![c] = told \o << Event("raise", OpenError) >>]
                    /\ UNCHANGED <<clients, wire>>
               ELSE IF Usable(clients, id)
               THEN /\ call' = [call EXCEPT ![c] =
                                  [pc |-> "await", tool |-> tool, given |-> given,
                                   ctx |-> ctx, payload |-> body, client |-> id,
                                   pending |-> NoPending]]
                    /\ clients' = opened
                    /\ wire' = [wire EXCEPT ![c] = Append(@, Request(id, body))]
                    /\ trace' = [trace EXCEPT ![c] =
                                   told \o << Event("open", ""), Event("post", "") >>]
               ELSE /\ call' = [call EXCEPT ![c] =
                                  Done(c, tool, given, ctx, body, id, h.pending)]
                    /\ clients' = AExit(opened, id, h.pending.channel = "raise")
                    /\ trace' = [trace EXCEPT ![c] =
                                   told \o << Event("open", "") >> \o h.events
                                        \o Leave(h.pending)]
                    /\ UNCHANGED wire

(* The handler of call c resumes with exception e raised inside the try; *)
(* seen: what came back from the transport before it.                     *)
Caught(c, seen, e, fails) ==
    LET h == Except(call[c].tool, call[c].ctx, e, fails)
    IN  IF Retries(Len(wire[c]))
        THEN /\ wire' = [wire EXCEPT ![c] =
                           Append(@, Request(call[c].client, call[c].payload))]
             /\ trace' = [trace EXCEPT ![c] =
                            @ \o seen \o << Event("failed", e), Event("post", "") >>]
             /\ UNCHANGED <<call, clients>>
        ELSE /\ call' = [call EXCEPT ![c].pc =
                           IF h.pending.channel = "return" THEN "returned" ELSE "raised",
                                     ![c].pending = h.pending]
             /\ clients' = AExit(clients, call[c].client, h.pending.channel = "raise")
             /\ trace' = [trace EXCEPT ![c] = @ \o seen \o h.events \o Leave(h.pending)]
             /\ UNCHANGED wire

(* The POST completes with a response: raise_for_status, return the text. *)
Respond(c) ==
    /\ call[c].pc = "await"
    /\ \E response \in Responses(call[c].tool) :
        \E fails \in (IF raise_for_status(response) = None
                       THEN {FALSE} ELSE Fails(call[c].ctx)) :
         LET e == raise_for_status(response)
             pending == Return(ReturnValue(response))
         IN  IF e = None
             THEN /\ call' = [call EXCEPT ![c].pc = "returned", ![c].pending = pending]
                  /\ clients' = AExit(clients, call[c].client, FALSE)
                  /\ trace' = [trace EXCEPT ![c] =
                                 @ \o << Received(response) >>
                                   \o Leave(pending)]
                  /\ UNCHANGED wire
             ELSE Caught(c, << Received(response) >>, e, fails)

(* The POST completes with a transport exception. *)
Fail(c) ==
    /\ call[c].pc = "await"
    /\ \E e \in TransportErrors, fails \in Fails(call[c].ctx) : Caught(c, << >>, e, fails)

Next ==
    \E c \in Calls :
        \/ Invoke(c)
        \/ Respond(c)
        \/ Fail(c)

Spec == Init /\ [][Next]_vars

(***************************************************************************)
(* What the host and the wire show of a call.                              *)
(***************************************************************************)
Invoked(c) == call[c].pc # "idle"

Finished(c) == call[c].pc \in {"returned", "raised"}

Last(c) == trace[c][Len(trace[c])]

At(c, ev) == {i \in DOMAIN trace[c] : trace[c][i].ev = ev}

Texts(c, ev) == {trace[c][i].text : i \in At(c, ev)}

(* The POST of call c completed with a 2xx response. *)
Succeeded(c) ==
    \E i \in At(c, "response") : trace[c][i].code >= 200 /\ trace[c][i].code <= 299

(* The POST of call c completed with a response outside 2xx. *)
Rejected(c) ==
    \E i \in At(c, "response") : trace[c][i].code < 200 \/ trace[c][i].code > 299

(* The documented wording of each tool's error text. *)
ErrorLabel(tool) ==
    CASE tool = "fetch_leaderboard" -> "leaderboard data"
      [] tool = "fetch_profile" -> "profile data"
      [] tool = "fetch_token_data" -> "token data"
      [] tool = "fetch_token_broadcasts" -> "token broadcasts"

ErrorText(tool, m) == "Error fetching " \o ErrorLabel(tool) \o ": " \o m

Returned(text) == [ev |-> "return", text |-> text, code |-> 0]

Raised(text) == [ev |-> "raise", text |-> text, code |-> 0]

SameRequest(r, q) == r.url = q.url /\ r.headers = q.headers /\ r.json = q.json

SameCall(c, d) == call[c].tool = call[d].tool /\ call[c].given = call[d].given

(* What the transport did to call c: the response or the exception of its *)
(* POST, or the failure to open its client.                               *)
Outcome(c) ==
    {trace[c][i] : i \in At(c, "response") \cup At(c, "failed")}
        \cup (IF Finished(c) /\ Last(c) = Raised(OpenError) THEN {Last(c)} ELSE {})

(***************************************************************************)
(* C1 as stated: whenever the request fails -- also when the failure is in *)
(* opening the client or in sending the error notification -- the call     *)
(* ends by returning "Error fetching <X>: <message>", never by raising.    *)
(***************************************************************************)
C1_EveryFailureReturnsErrorText ==
    \A c \in Calls :
        Finished(c) /\ (At(c, "failed") # {} \/ Last(c) = Raised(OpenError)) =>
            /\ Last(c).ev = "return"
            /\ \A m \in Texts(c, "failed") : Last(c).text = ErrorText(call[c].tool, m)

(***************************************************************************)
(* C1 amended: an exception raised by client.post or raise_for_status      *)
(* (non-2xx response, transport exception) ends the call with the return   *)
(* of "Error fetching <X>: <message>", unless the error notification       *)
(* itself raises; a call ends by raising only when a notification or the   *)
(* opening of the client raised.                                           *)
(***************************************************************************)
C1_CaughtFailureReturnsErrorText ==
    \A c \in Calls :
        Finished(c) =>
            /\ Rejected(c) => At(c, "failed") # {}
            /\ \A m \in Texts(c, "failed") :
                   IF Last(c).ev = "return"
                   THEN Last(c).text = ErrorText(call[c].tool, m)
                   ELSE call[c].ctx # None /\ Last(c) = Raised(NotifyError)
            /\ Last(c).ev = "raise" => Last(c).text \in {NotifyError, OpenError}

(* fetch_profile("trader1") with the endpoint unreachable. *)
C1_Witness ==
    \E c \in Calls :
        /\ call[c].tool = "fetch_profile" /\ call[c].given = "trader1"
        /\ Texts(c, "failed") = {ConnectError}
        /\ Finished(c)
        /\ Last(c) = Returned("Error fetching profile data: All connection attempts failed")

(***************************************************************************)
(* C2 as stated: every call issues exactly one POST, never zero and never  *)
(* a second one, and yields exactly one response to the host, the success  *)
(* text or the error text.                                                 *)
(***************************************************************************)
C2_ExactlyOnePostOneResponse ==
    \A c \in Calls :
        /\ Len(wire[c]) <= 1
        /\ Finished(c) =>
              /\ Len(wire[c]) = 1
              /\ Cardinality(At(c, "return") \cup At(c, "raise")) = 1
              /\ Last(c).ev = "return"

(***************************************************************************)
(* C2 amended: every call issues at most one POST, and exactly one unless  *)
(* the info notification or the opening of the client raised before it; no *)
(* second POST follows a failure; the host gets exactly one outcome, last  *)
(* of all: the response text, the error text, or the exception raised by a *)
(* notification or by the opening of the client.                           *)
(***************************************************************************)
C2_AtMostOnePostOneOutcome ==
    \A c \in Calls :
        /\ Len(wire[c]) <= 1
        /\ Len(wire[c]) = Cardinality(At(c, "post"))
        /\ call[c].pc = "await" => Len(wire[c]) = 1
        /\ ~Finished(c) => At(c, "return") \cup At(c, "raise") = {}
        /\ Finished(c) =>
              /\ At(c, "return") \cup At(c, "raise") = {Len(trace[c])}
              /\ Len(wire[c]) = 0 <=>
                    /\ Last(c).ev = "raise"
                    /\ At(c, "failed") = {} /\ At(c, "response") = {}
              /\ Last(c).ev = "return" =>
                    \/ Succeeded(c) /\ Last(c).text \in Texts(c, "response")
                    \/ \E m \in Texts(c, "failed") : Last(c).text = ErrorText(call[c].tool, m)
              /\ Last(c).ev = "raise" => Last(c).text \in {NotifyError, OpenError}

C2_Witness ==
    \E c \in Calls :
        /\ Finished(c) /\ Rejected(c)
        /\ Len(wire[c]) = 1
        /\ Last(c).ev = "return"

(***************************************************************************)
(* C3: when the POST completes with a 2xx status, the call returns the     *)
(* response body text exactly as received, whatever the body, and emits no *)
(* error notification.                                                     *)
(***************************************************************************)
C3_SuccessReturnsBodyVerbatim ==
    \A c \in Calls :
        Finished(c) /\ Succeeded(c) =>
            /\ \A i \in At(c, "response") : Last(c) = Returned(trace[c][i].text)
            /\ At(c, "error") = {}
            /\ At(c, "failed") = {}

(* fetch_token_broadcasts("abc123") answered with an empty edge list. *)
C3_Witness ==
    \E c \in Calls :
        /\ call[c].tool = "fetch_token_broadcasts" /\ call[c].given = "abc123"
        /\ call[c].ctx # None
        /\ Succeeded(c)
        /\ Finished(c)
        /\ Last(c) = Returned("{\"data\":{\"tokenBroadcasts\":{\"edges\":[]}}}")

(***************************************************************************)
(* C4: the body of every POST is {query: the tool's own document,          *)
(* variables: the documented fixed values with the one caller-supplied     *)
(* value in its slot}; leaderboard_type defaults to "PNL_WIN".             *)
(***************************************************************************)
DocumentedBody(tool, given) ==
    CASE tool = "fetch_leaderboard" ->
            [query |-> LEADERBOARD_QUERY,
             variables |-> [after |-> None, first |-> 100, groupId |-> None,
                            leaderboardType |-> IF given = Omitted THEN "PNL_WIN" ELSE given,
                            periodsAgo |-> None]]
      [] tool = "fetch_profile" ->
            [query |-> PROFILE_QUERY,
             variables |-> [username |-> given, cursor |-> None, count |-> 10]]
      [] tool = "fetch_token_data" ->
            [query |-> TOKENS_LIST_QUERY,
             variables |-> [count |-> 50, cursor |-> None,
                            filterBy |-> "(broadcastCount5minV2:>0) && (chain:SOLANA)",
                            query |-> None, sortBy |-> "trendingScore5min:desc"]]
      [] tool = "fetch_token_broadcasts" ->
            [query |-> TOKEN_BROADCASTS_QUERY,
             variables |-> [id |-> given, after |-> None, first |-> 100,
                            sortBy |-> "Time", sortDirection |-> "Desc"]]

C4_BodyIsDocumented ==
    \A c \in Calls :
        \A i \in DOMAIN wire[c] :
            /\ wire[c][i].json = DocumentedBody(call[c].tool, call[c].given)
            /\ \A t \in Tools \ {call[c].tool} : wire[c][i].json.query # QueryOf(t)

(* fetch_leaderboard("TRADE_VOLUME") *)
C4_Witness ==
    \E c \in Calls :
        /\ call[c].tool = "fetch_leaderboard" /\ call[c].given = "TRADE_VOLUME"
        /\ Len(wire[c]) = 1
        /\ wire[c][1].json.variables =
              [after |-> None, first |-> 100, groupId |-> None,
               leaderboardType |-> "TRADE_VOLUME", periodsAgo |-> None]

(***************************************************************************)
(* C5: the client a call opened is closed once the call has returned or    *)
(* raised, on every exit path; an open client belongs to a call that is    *)
(* still suspended at its POST.                                            *)
(***************************************************************************)
C5_ClientReleasedOnExit ==
    \A k \in DOMAIN clients :
        /\ Finished(clients[k].owner) => clients[k].state = "closed"
        /\ clients[k].state = "open" =>
              /\ call[clients[k].owner].pc = "await"
              /\ call[clients[k].owner].client = k

(* The error notification raised while the failure was handled. *)
C5_Witness ==
    \E c \in Calls :
        /\ call[c].pc = "raised"
        /\ At(c, "failed") # {}
        /\ Last(c) = Raised(NotifyError)
        /\ call[c].client \in DOMAIN clients
        /\ clients[call[c].client].state = "closed"

(***************************************************************************)
(* C6: with an observer, one info notification precedes the POST; an error *)
(* notification is made if and only if the request failed, after the       *)
(* failure and before the return, with the very text the call returns; a   *)
(* successful call makes none.                                             *)
(***************************************************************************)
C6_NotificationsOrdered ==
    \A c \in Calls :
        Invoked(c) /\ call[c].ctx # None =>
            /\ At(c, "info") = {1}
            /\ \A i \in At(c, "post") : i > 1
            /\ call[c].pc = "await" => At(c, "error") = {}
            /\ Finished(c) =>
                  /\ At(c, "error") # {} <=> At(c, "failed") # {}
                  /\ Cardinality(At(c, "error")) <= 1
                  /\ \A i \in At(c, "error") :
                        /\ \A j \in At(c, "failed") : j < i
                        /\ \A j \in At(c, "post") : j < i
                        /\ i < Len(trace[c])
                        /\ Last(c).ev = "return" => trace[c][i].text = Last(c).text
                  /\ Succeeded(c) => At(c, "error") = {}

C6_Witness ==
    \E c \in Calls :
        /\ call[c].ctx # None
        /\ Finished(c)
        /\ Last(c).ev = "return"
        /\ At(c, "info") = {1} /\ At(c, "post") = {3} /\ At(c, "failed") = {4}
        /\ At(c, "error") = {5} /\ At(c, "return") = {7}
        /\ trace[c][5].text = trace[c][7].text

AloneResults(c) ==
    IF Succeeded(c) THEN {Returned(t) : t \in Texts(c, "response")}
    ELSE IF At(c, "failed") # {}
    THEN {Returned(ErrorText(call[c].tool, m)) : m \in Texts(c, "failed")}
            \cup (IF call[c].ctx # None THEN {Raised(NotifyError)} ELSE {})
    ELSE {Raised(OpenError)} \cup (IF call[c].ctx # None THEN {Raised(NotifyError)} ELSE {})

C9_ConcurrentCallsIndependent ==
    \A c \in Calls :
        /\ call[c].pc = "await" =>
              /\ call[c].client \in DOMAIN clients
              /\ clients[call[c].client].owner = c
              /\ clients[call[c].client].state = "open"
              /\ Len(wire[c]) = 1 /\ wire[c][1].client = call[c].client
        /\ \A d \in Calls \ {c} : call[c].client # 0 => call[d].client # call[c].client
        /\ Texts(c, "failed") \subseteq
               TransportErrors \cup {raise_for_status([status_code |-> 500, text |-> ""])}
        /\ Finished(c) => Last(c) \in AloneResults(c)

(* Call 2 has come and gone while call 1 is still suspended at its POST. *)
C9_Witness ==
    /\ call[1].pc = "await"
    /\ clients[call[1].client].state = "open"
    /\ call[2].pc = "returned"
    /\ clients[call[2].client].state = "closed"
    /\ call[1].client # call[2].client

(***************************************************************************)
(* C10 as stated: a failed call and a successful call whose body is the    *)
(* same error-shaped text present the host with the same observations:     *)
(* same string, same normal-return channel, no distinct error signal.      *)
(***************************************************************************)
HostView(c) == [result |-> Last(c), errors |-> Texts(c, "error")]

ErrorShaped(c, d) ==
    /\ Finished(c) /\ Finished(d)
    /\ call[c].tool = call[d].tool
    /\ At(c, "failed") # {}
    /\ Succeeded(d)
    /\ Texts(d, "response") = {ErrorText(call[c].tool, m) : m \in Texts(c, "failed")}

C10_FailureIndistinguishable ==
    \A c, d \in Calls : ErrorShaped(c, d) => HostView(c) = HostView(d)

(***************************************************************************)
(* C10 amended: a failed call ends by returning unless its error           *)
(* notification raised, and then its result is the result of the           *)
(* successful call with the same error-shaped body: same string through    *)
(* the same return channel.  The notifications tell them apart: with an    *)
(* observer the failed call makes an error notification with that text,    *)
(* the successful call makes none.                                         *)
(***************************************************************************)
C10_SameResultDifferentNotifications ==
    \A c, d \in Calls :
        ErrorShaped(c, d) =>
            /\ Last(c).ev = "raise" => call[c].ctx # None /\ Last(c) = Raised(NotifyError)
            /\ Last(c).ev = "return" => Last(c) = Last(d)
            /\ Texts(d, "error") = {}
            /\ call[c].ctx # None => Texts(c, "error") = Texts(d, "response")
            /\ call[c].ctx = None => Texts(c, "error") = {}

C10_Witness ==
    \E c, d \in Calls :
        /\ ErrorShaped(c, d)
        /\ call[c].ctx # None /\ call[d].ctx # None
        /\ Last(c).ev = "return" /\ Last(c) = Last(d)
        /\ Texts(c, "error") # {} /\ Texts(d, "error") = {}

====
